---- MODULE Spec2Model ----
(***************************************************************************)
(* Model of media_player/firetv.py: the throttled adb_command decorator    *)
(* (the "gate") and FireTVDevice.async_update (the state inference).       *)
(*                                                                         *)
(* Time is discrete and counted in milliseconds; the clock advances in     *)
(* steps of ClockStep, so that calls made at the same instant are calls    *)
(* made within MIN_TIME of each other.  One FireTVDevice is modelled in    *)
(* full.  Everything                                                       *)
(* it owns is instance state; the only module-level mutable state is the   *)
(* Throttle record attached to adb_command, which every FireTVDevice of    *)
(* the process shares.  The other FireTVDevice instances of the process    *)
(* are therefore represented by their calls of adb_command (PeerGate).     *)
(*                                                                         *)
(* The remote operations (firetv.FireTV, reached through getattr or the    *)
(* unbound method) are external: each call either returns a value, raises  *)
(* an exception of self._exceptions, or raises another exception.  The     *)
(* receiver of every such call is the FireTVDevice (`self`), whose         *)
(* attributes beyond those of this file come from MediaPlayerDevice; what  *)
(* the lookup yields is decided outside this file, so every outcome is     *)
(* allowed.                                                                *)
(***************************************************************************)
EXTENDS Integers, Sequences, FiniteSets, TLC

(* ---------------------------------------------------------------- constants *)

MIN_TIME == 10
SLEEP_TIME == 100

PACKAGE_LAUNCHER == "com.amazon.tv.launcher"
PACKAGE_SETTINGS == "com.amazon.tv.settings"
PACKAGE_NETFLIX == "com.netflix.ninja"

STATE_IDLE == "idle"
STATE_OFF == "off"
STATE_PAUSED == "paused"
STATE_PLAYING == "playing"
STATE_STANDBY == "standby"
STATE_UNKNOWN == "unknown"

\* Longest running_apps() result that the environment returns.
MaxRunning == 1

\* Longest source that a select_source call is given.
MaxSourceLen == 2

(* ------------------------------------------------------------ Python values *)

None == [t |-> "NoneType"]
PyBool(b) == [t |-> "bool", b |-> b]
PyStr(s) == [t |-> "str", s |-> s]
PyList(items) == [t |-> "list", items |-> items]
\* A dict that has a 'package' key, and one that has other keys only.
PyDictPackage(v) == [t |-> "dict", package |-> v]
PyDictOther == [t |-> "dict", activity |-> "Main"]

\* Python truth value of v (`if v`, `not v`).
Truthy(v) ==
    CASE v.t = "NoneType" -> FALSE
      [] v.t = "bool" -> v.b
      [] v.t = "str" -> v.s # ""
      [] v.t = "list" -> Len(v.items) > 0
      [] v.t = "dict" -> TRUE

(* ------------------------------------------------- the external ADB client *)

Packages == {PACKAGE_LAUNCHER, PACKAGE_SETTINGS, PACKAGE_NETFLIX}
RunningPackages == {PACKAGE_LAUNCHER, PACKAGE_NETFLIX}

Returns(v) == [kind |-> "returns", val |-> v]
\* The call raises an exception that is in self._exceptions.
RaisesRecognized == [kind |-> "recognized"]
\* The call raises an exception that is not in self._exceptions.
RaisesOther == [kind |-> "other"]
Faults == {RaisesRecognized, RaisesOther}

SeqsUpTo(S, n) == UNION {[1..k -> S] : k \in 0..n}

\* The characters of a source: the sigil, whitespace, any other character.
Chars == {"!", " ", "c"}

\* A str argument, as its characters.
PyChars(chars) == [t |-> "str", chars |-> chars]

\* What a caller passes as source: a str, or something that is not one.
Sources ==
    {PyChars(chars) : chars \in SeqsUpTo(Chars, MaxSourceLen)} \cup {None}

BoolOutcomes == {Returns(PyBool(b)) : b \in BOOLEAN} \cup Faults
CurrentAppOutcomes ==
    {Returns(None), Returns(PyStr("")), Returns(PyDictOther)}
        \cup {Returns(PyStr(p)) : p \in Packages}
        \cup {Returns(PyDictPackage(PyStr(p))) : p \in RunningPackages}
        \cup Faults
RunningAppsOutcomes ==
    {Returns(PyList([i \in DOMAIN s |-> PyStr(s[i])])) :
        s \in SeqsUpTo(RunningPackages, MaxRunning)} \cup Faults
\* connect() returns None; it has established a handle on its receiver
\* (connected) or found the device refusing (not connected).
ConnectOutcomes ==
    {[kind |-> "returns", val |-> None, connected |-> c] : c \in BOOLEAN}
        \cup Faults
ActionOutcomes == {Returns(None)} \cup Faults

Outcomes(op) ==
    CASE op = "connect" -> ConnectOutcomes
      [] op = "running_apps" -> RunningAppsOutcomes
      [] op = "current_app" -> CurrentAppOutcomes
      [] op \in {"_screen_on", "_awake", "_wake_lock"} -> BoolOutcomes
      [] OTHER -> ActionOutcomes

(* ---------------------------------------------------------------- the gate *)

\* throttle[1] of homeassistant.util.Throttle before the first call.
Never == -1
\* The step of the clock: half a sleep of async_update, more than MIN_TIME.
ClockStep == SLEEP_TIME \div 2
\* Ages above AgeCap are not told apart: they all exceed MIN_TIME.
AgeCap == ClockStep

\* An age, `by` later.
Aged(age, by) == IF age = Never THEN Never
                 ELSE IF age + by > AgeCap THEN AgeCap ELSE age + by

\* @Throttle(MIN_TIME) on the module-level function adb_command: the call
\* adb_command(command, ...) runs, and returns the wrapper _adb_command, when
\* adb_command was never called or its last run is more than MIN_TIME ago.
\* Otherwise Throttle returns None in its place.
ThrottleRuns(age) == age = Never \/ age > MIN_TIME

\* _adb_command with an except clause that forgets self._firetv._adb = None.
_adb_command_keeps_handle(o) ==
    CASE o.kind = "returns" ->
            [returns |-> o.val, raised |-> "none", logs |-> 0, drops |-> FALSE]
      [] o.kind = "recognized" ->
            [returns |-> None, raised |-> "none", logs |-> 1, drops |-> FALSE]
      [] o.kind = "other" ->
            [returns |-> None, raised |-> "other", logs |-> 0, drops |-> FALSE]

\* _adb_command with a bare except clause.
_adb_command_catches_all(o) ==
    CASE o.kind = "returns" ->
            [returns |-> o.val, raised |-> "none", logs |-> 0, drops |-> FALSE]
      [] OTHER ->
            [returns |-> None, raised |-> "none", logs |-> 1, drops |-> TRUE]

\* _adb_command(self, ...) for an operation whose outcome is o.
_adb_command(o) ==
    CASE o.kind = "returns" ->
            [returns |-> o.val, raised |-> "none", logs |-> 0, drops |-> FALSE]
      [] o.kind = "recognized" ->
            [returns |-> None, raised |-> "none", logs |-> 1, drops |-> TRUE]
      [] o.kind = "other" ->
            [returns |-> None, raised |-> "other", logs |-> 0, drops |-> FALSE]

\* The expression adb_command(command, ...)(self) of async_update, evaluated
\* when the Throttle record has the given age.  Calling the None that a
\* throttled adb_command returns raises TypeError at the call site, outside
\* the try block of _adb_command.
adb_command(age, o) ==
    IF ThrottleRuns(age)
    THEN [executed |-> TRUE] @@ _adb_command(o)
    ELSE [executed |-> FALSE, returns |-> None, raised |-> "TypeError",
          logs |-> 0, drops |-> FALSE]

(* --------------------------------------------------- the class definition *)

\* The methods of FireTVDevice decorated with @adb_command, in source order.
CommandOrder ==
    <<"turn_on", "turn_off", "media_play", "media_pause", "media_play_pause",
      "media_stop", "volume_up", "volume_down", "media_previous_track",
      "media_next_track", "select_source">>
Commands == {CommandOrder[i] : i \in DOMAIN CommandOrder}

\* Time the interpreter takes from one decoration of the class body to the next.
LoadGaps == {0, ClockStep}

\* The class body applies adb_command to the methods one after the other.
\* Each application is a call of the throttled adb_command: it yields the
\* wrapper, or None when the previous decoration ran at most MIN_TIME ago.
\* The result is the set of methods that are callable and the age of the
\* Throttle record at the end of the class body.
RECURSIVE Decorate(_, _, _, _)
Decorate(i, age, gap, bound) ==
    IF i > Len(CommandOrder)
    THEN [methods |-> bound, age |-> age]
    ELSE IF ThrottleRuns(age)
         THEN Decorate(i + 1, Aged(0, gap), gap, bound \cup {CommandOrder[i]})
         ELSE Decorate(i + 1, Aged(age, gap), gap, bound)

(* ------------------------------------------------------------------- state *)

VARIABLES
    _adb,            \* self._firetv._adb is a handle (TRUE) or None (FALSE)
    _state,          \* self._state
    _running_apps,   \* self._running_apps
    _current_app,    \* self._current_app
    _get_source,     \* self._get_source
    _get_sources,    \* self._get_sources
    pc,              \* where async_update is suspended; "idle" between cycles
    timer,           \* what is left of the asyncio.sleep in progress
    current_app,     \* the local variable current_app of async_update
    throttle_age,    \* time since the last run of adb_command, or Never
    throttle_by,     \* the call that run belonged to
    methods,         \* the decorated methods that are callable
    select_calls,    \* history: the last select_source call and what it invoked
    cyc,             \* history: the polling cycle in progress, or the last one
    gate,            \* history: the last guarded call of this device
    gate_age         \* history: time since that call

vars == <<_adb, _state, _running_apps, _current_app, _get_source, _get_sources,
          pc, timer, current_app, throttle_age, throttle_by, methods,
          select_calls, cyc, gate, gate_age>>

Unread == [t |-> "unread"]

NoCycle ==
    [hadHandle |-> TRUE, afterFault |-> FALSE, before |-> STATE_UNKNOWN,
     outcome |-> "none",
     probes |-> <<>>, connects |-> 0, screen_on |-> Unread, awake |-> Unread,
     running_apps |-> Unread,
     current_app |-> Unread, wake_lock |-> Unread]

\* The history of a cycle that starts now.
NewCycle ==
    [NoCycle EXCEPT !.hadHandle = _adb, !.afterFault = gate.pending,
                    !.before = _state, !.outcome = "running"]

NoGate ==
    [op |-> "none", via |-> "none", executed |-> FALSE, fault |-> "none",
     neutral |-> TRUE, raised |-> "none", logs |-> 0, adb |-> TRUE,
     repeat |-> FALSE, prevExecuted |-> FALSE, blocker |-> "none",
     adbBefore |-> TRUE, connected |-> FALSE, pending |-> FALSE]

\* setup_platform adds the device only when FireTV(host, adbkey) connected.
\* The hub polls it a scan interval later: the class body ran long ago.
NoSelect == [called |-> FALSE, source |-> None, invoked |-> <<>>]

Init ==
    /\ _adb = TRUE
    /\ _state = STATE_UNKNOWN
    /\ _running_apps = None
    /\ _current_app = None
    /\ _get_source \in BOOLEAN
    /\ _get_sources \in BOOLEAN
    /\ pc = "idle"
    /\ timer = 0
    /\ current_app = None
    /\ \E gap \in LoadGaps :
          LET loaded == Decorate(1, Never, gap, {}) IN
          /\ methods = loaded.methods
          /\ throttle_age = Aged(loaded.age, AgeCap)
    /\ throttle_by = "load"
    /\ select_calls = NoSelect
    /\ cyc = NoCycle
    /\ gate = NoGate
    /\ gate_age = AgeCap

(* ------------------------------------------------- async_update, the parts *)

\* Lines 220-223: the package of a dict that has one, else the value itself.
ExtractPackage(app) ==
    IF app.t = "dict" /\ "package" \in DOMAIN app THEN app.package ELSE app

\* Lines 226-230 without the test of self._current_app.
OnlyRunningApp_unconditional(app) == PyList(<<app>>)

\* Lines 226-230: the current app as the only running app.
OnlyRunningApp(app) == IF Truthy(app) THEN PyList(<<app>>) ELSE None

\* Lines 233-234 with the settings package left out of the list.
IsLauncher_without_settings(app) == app = PyStr(PACKAGE_LAUNCHER)

\* Lines 233-234 with a test that nothing passes.
IsLauncher_never(app) == FALSE

\* Lines 233-234: the launcher or the settings are in the foreground.
IsLauncher(app) == app \in {PyStr(PACKAGE_LAUNCHER), PyStr(PACKAGE_SETTINGS)}

\* Line 177 as a test that never finds the device disconnected.
Disconnected_never(adb) == FALSE

\* Line 177: the device is disconnected.
Disconnected(adb) == ~adb

\* Line 188 as `is False`: a read without a result counts as on.
ScreenIsOff_only_false(screen_on) == screen_on = PyBool(FALSE)

\* Line 188: the device is off.
ScreenIsOff(screen_on) == ~Truthy(screen_on)

\* Line 199 as `is False`: a read without a result counts as awake.
ScreenSaverIsOn_only_false(awake) == awake = PyBool(FALSE)

\* Line 199: the screen saver is on.
ScreenSaverIsOn(awake) == ~Truthy(awake)

\* Lines 238-243: the state of a device that shows an app.
StateWithApp(wake_lock) ==
    IF Truthy(wake_lock) THEN STATE_PLAYING ELSE STATE_PAUSED

\* Lines 251-256: the state when the current app is not fetched.
StateWithoutApp(wake_lock) ==
    IF Truthy(wake_lock) THEN STATE_PLAYING ELSE STATE_STANDBY

\* The handle with a gate that takes every None it returns for a failure.
HandleAfter_drops_on_none(op, o, g) ==
    IF g.drops \/ (g.executed /\ g.returns = None) THEN FALSE ELSE _adb

\* self._firetv._adb after a guarded call: _adb_command drops it on a
\* recognized exception (line 112).  Nothing else assigns it: line 183 calls
\* type(self._firetv).connect with the FireTVDevice as its receiver, so the
\* handle that connect establishes is not the one line 177 reads.
HandleAfter(op, o, g) == IF g.drops THEN FALSE ELSE _adb

\* The guarded calls that open a polling cycle.
CycleStarts == {"connect", "_screen_on"}

\* What a call adb_command(op)(self) with result g leaves in the Throttle
\* record and the handle, and the history of it.
Guarded(op, via, o, g) ==
    /\ throttle_age' = IF via = "update" /\ g.executed THEN 0 ELSE throttle_age
    /\ throttle_by' = IF via = "update" /\ g.executed THEN op ELSE throttle_by
    /\ _adb' = HandleAfter(op, o, g)
    /\ gate' = [op |-> op, via |-> via, executed |-> g.executed,
                fault |-> IF g.executed /\ o.kind # "returns"
                          THEN o.kind ELSE "none",
                neutral |-> g.returns = None, raised |-> g.raised,
                logs |-> g.logs,
                adb |-> HandleAfter(op, o, g),
                repeat |-> /\ via = "update"
                           /\ gate.via = "update"
                           /\ gate.op = op
                           /\ gate_age < MIN_TIME,
                prevExecuted |-> gate.executed,
                blocker |-> IF g.executed THEN "none" ELSE throttle_by,
                adbBefore |-> _adb,
                connected |-> /\ g.executed /\ op = "connect"
                              /\ o.kind = "returns" /\ o.connected,
                pending |-> \/ g.executed /\ o.kind = "recognized"
                            \/ gate.pending /\ op \notin CycleStarts]
    /\ gate_age' = 0

\* No guarded call in this step.
Unguarded == UNCHANGED <<throttle_age, throttle_by, _adb, gate, gate_age>>

\* The history of the cycle after the guarded call of op with result g.
Probed(c, op, g) ==
    [c EXCEPT
        !.probes = IF g.executed /\ op # "connect" THEN Append(@, op) ELSE @,
        !.connects = IF g.executed /\ op = "connect" THEN @ + 1 ELSE @,
        !.outcome = IF g.raised = "none" THEN @ ELSE g.raised,
        !.screen_on = IF op = "_screen_on" /\ g.raised = "none"
                      THEN g.returns ELSE @,
        !.awake = IF op = "_awake" /\ g.raised = "none" THEN g.returns ELSE @,
        !.running_apps = IF op = "running_apps" /\ g.raised = "none"
                         THEN g.returns ELSE @,
        !.current_app = IF op = "current_app" /\ g.raised = "none"
                        THEN g.returns ELSE @,
        !.wake_lock = IF op = "_wake_lock" /\ g.raised = "none"
                      THEN g.returns ELSE @]

Returned(c) == [c EXCEPT !.outcome = "returned"]

\* await asyncio.sleep(SLEEP_TIME), and the exception that ends the cycle.
Sleep(label) == pc' = label /\ timer' = SLEEP_TIME
Awake(label) == pc = label /\ timer = 0
EndCycle == pc' = "idle" /\ timer' = 0

Config == <<_get_source, _get_sources, methods>>

(* ------------------------------------------------------------ async_update *)

\* Lines 177-185: the device is disconnected.
UpdateDisconnected ==
    /\ pc = "idle"
    /\ Disconnected(_adb)
    /\ _state' = STATE_UNKNOWN
    /\ _running_apps' = None
    /\ _current_app' = None
    /\ \E o \in Outcomes("connect") :
          LET g == adb_command(throttle_age, o) IN
          /\ Guarded("connect", "update", o, g)
          /\ cyc' = Probed(NewCycle, "connect", g)
          /\ IF g.raised = "none" THEN Sleep("L184") ELSE EndCycle
    /\ UNCHANGED <<current_app, select_calls, Config>>

\* Line 185: return after the sleep that follows connect.
ReturnDisconnected ==
    /\ Awake("L184")
    /\ EndCycle
    /\ cyc' = Returned(cyc)
    /\ Unguarded
    /\ UNCHANGED <<_state, _running_apps, _current_app, current_app,
                   select_calls, Config>>

\* Lines 177 and 188-196: the device is connected; read _screen_on.
UpdateScreenOn ==
    /\ pc = "idle"
    /\ ~Disconnected(_adb)
    /\ \E o \in Outcomes("_screen_on") :
          LET g == adb_command(throttle_age, o) IN
          /\ Guarded("_screen_on", "update", o, g)
          /\ cyc' = Probed(NewCycle, "_screen_on", g)
          /\ IF g.raised # "none" THEN EndCycle
             ELSE IF ScreenIsOff(g.returns) THEN Sleep("L189")
             ELSE Sleep("L196")
    /\ UNCHANGED <<_state, _running_apps, _current_app, current_app,
                   select_calls, Config>>

\* Lines 190-193: the device is off.
ReturnOff ==
    /\ Awake("L189")
    /\ _state' = STATE_OFF
    /\ _running_apps' = None
    /\ _current_app' = None
    /\ EndCycle
    /\ cyc' = Returned(cyc)
    /\ Unguarded
    /\ UNCHANGED <<current_app, select_calls, Config>>

\* Lines 199-207: read _awake.
CheckAwake ==
    /\ Awake("L196")
    /\ \E o \in Outcomes("_awake") :
          LET g == adb_command(throttle_age, o) IN
          /\ Guarded("_awake", "update", o, g)
          /\ cyc' = Probed(cyc, "_awake", g)
          /\ IF g.raised # "none" THEN EndCycle
             ELSE IF ScreenSaverIsOn(g.returns) THEN Sleep("L200")
             ELSE Sleep("L207")
    /\ UNCHANGED <<_state, _running_apps, _current_app, current_app,
                   select_calls, Config>>

\* Lines 201-204: the screen saver is on.
ReturnIdle ==
    /\ Awake("L200")
    /\ _state' = STATE_IDLE
    /\ _running_apps' = None
    /\ _current_app' = None
    /\ EndCycle
    /\ cyc' = Returned(cyc)
    /\ Unguarded
    /\ UNCHANGED <<current_app, select_calls, Config>>

\* Lines 210-213: get the running apps.
GetRunningApps ==
    /\ Awake("L207")
    /\ _get_sources
    /\ \E o \in Outcomes("running_apps") :
          LET g == adb_command(throttle_age, o) IN
          /\ Guarded("running_apps", "update", o, g)
          /\ cyc' = Probed(cyc, "running_apps", g)
          /\ IF g.raised # "none"
             THEN EndCycle /\ UNCHANGED _running_apps
             ELSE Sleep("L213") /\ _running_apps' = g.returns
    /\ UNCHANGED <<_state, _current_app, current_app, select_calls, Config>>

\* async_update has reached line 216.
AtLine216 == \/ Awake("L207") /\ ~_get_sources
             \/ Awake("L213")

\* Lines 216-218: get the current app.
GetCurrentApp ==
    /\ AtLine216
    /\ _get_source
    /\ \E o \in Outcomes("current_app") :
          LET g == adb_command(throttle_age, o) IN
          /\ Guarded("current_app", "update", o, g)
          /\ cyc' = Probed(cyc, "current_app", g)
          /\ IF g.raised # "none"
             THEN EndCycle /\ UNCHANGED current_app
             ELSE Sleep("L218") /\ current_app' = g.returns
    /\ UNCHANGED <<_state, _running_apps, _current_app, select_calls, Config>>

\* Lines 220-246: the current app, the running apps and the state.
DeriveWithApp ==
    /\ Awake("L218")
    /\ LET app == ExtractPackage(current_app) IN
       /\ _current_app' = app
       /\ _running_apps' = IF ~_get_sources THEN OnlyRunningApp(app)
                           ELSE _running_apps
       /\ IF IsLauncher(app)
          THEN /\ _state' = STATE_STANDBY
               /\ Unguarded
               /\ cyc' = cyc
               /\ Sleep("L246")
          ELSE \E o \in Outcomes("_wake_lock") :
                  LET g == adb_command(throttle_age, o) IN
                  /\ Guarded("_wake_lock", "update", o, g)
                  /\ cyc' = Probed(cyc, "_wake_lock", g)
                  /\ IF g.raised # "none"
                     THEN EndCycle /\ UNCHANGED _state
                     ELSE Sleep("L246") /\ _state' = StateWithApp(g.returns)
    /\ current_app' = None
    /\ UNCHANGED <<select_calls, Config>>

\* Lines 251-259: the state from the wake lock alone.
DeriveWithoutApp ==
    /\ AtLine216
    /\ ~_get_source
    /\ \E o \in Outcomes("_wake_lock") :
          LET g == adb_command(throttle_age, o) IN
          /\ Guarded("_wake_lock", "update", o, g)
          /\ cyc' = Probed(cyc, "_wake_lock", g)
          /\ IF g.raised # "none"
             THEN EndCycle /\ UNCHANGED _state
             ELSE Sleep("L259") /\ _state' = StateWithoutApp(g.returns)
    /\ UNCHANGED <<_running_apps, _current_app, current_app, select_calls,
                   Config>>

\* Lines 246-248 and 259: the last sleep of the cycle is over.
ReturnDerived ==
    /\ Awake("L246") \/ Awake("L259")
    /\ EndCycle
    /\ cyc' = Returned(cyc)
    /\ Unguarded
    /\ UNCHANGED <<_state, _running_apps, _current_app, current_app,
                   select_calls, Config>>

(* ---------------------------------------------------------------- commands *)

\* Lines 261-322: a call of a decorated method c.  A method whose decoration
\* was throttled is None and the call raises TypeError; the others run
\* _adb_command around the remote action.  adb_command itself is not called.
\* The methods differ in the remote action only, so the call is told by
\* whether the method is callable.
Method(callable, o) ==
    IF callable
    THEN [executed |-> TRUE] @@ _adb_command(o)
    ELSE [executed |-> FALSE, returns |-> None, raised |-> "TypeError",
          logs |-> 0, drops |-> FALSE]

\* A command whose recognized exception also resets the state.
Command_resets_state ==
    \E callable \in {(c \in methods) : c \in Commands} :
       \E o \in IF callable THEN ActionOutcomes ELSE {Returns(None)} :
          /\ Guarded("method", "command", o, Method(callable, o))
          /\ _state' = IF o.kind = "recognized" THEN STATE_UNKNOWN ELSE _state
          /\ UNCHANGED <<_running_apps, _current_app, pc, timer,
                         current_app, cyc, select_calls, Config>>

Command ==
    \E callable \in {(c \in methods) : c \in Commands} :
       \E o \in IF callable THEN ActionOutcomes ELSE {Returns(None)} :
          /\ Guarded("method", "command", o, Method(callable, o))
          /\ UNCHANGED <<_state, _running_apps, _current_app, pc, timer,
                         current_app, cyc, select_calls, Config>>

\* str.startswith for a one-character prefix.
startswith(chars, prefix) == Len(chars) > 0 /\ Head(chars) = prefix

\* str.lstrip(): without the leading whitespace.
RECURSIVE lstrip(_)
lstrip(chars) ==
    IF startswith(chars, " ") THEN lstrip(Tail(chars)) ELSE chars

\* Lines 318-322: the calls on self._firetv that the body of select_source
\* makes for a source.
select_source(source) ==
    IF source.t = "str"
    THEN IF ~startswith(source.chars, "!")
         THEN <<[f |-> "launch_app", arg |-> source.chars]>>
         ELSE <<[f |-> "stop_app", arg |-> lstrip(Tail(source.chars))]>>
    ELSE <<>>

\* A caller calls select_source(source): the method is _adb_command around
\* the body, or None when its decoration was throttled.
SelectSource ==
    \E source \in Sources :
       LET callable == "select_source" \in methods
           invoked == IF callable THEN select_source(source) ELSE <<>>
       IN
       \E o \in IF invoked # <<>> THEN ActionOutcomes ELSE {Returns(None)} :
          /\ Guarded("method", "command", o, Method(callable, o))
          /\ select_calls' = [called |-> TRUE, source |-> source,
                              invoked |-> invoked]
          /\ UNCHANGED <<_state, _running_apps, _current_app, pc, timer,
                         current_app, cyc, Config>>

(* ------------------------------------------------------------- environment *)

\* ClockStep passes.
Tick ==
    /\ timer' = IF timer > ClockStep THEN timer - ClockStep ELSE 0
    /\ throttle_age' = Aged(throttle_age, ClockStep)
    /\ gate_age' = Aged(gate_age, ClockStep)
    /\ \/ timer > 0
       \/ throttle_age' # throttle_age
       \/ gate_age' # gate_age
    /\ UNCHANGED <<_adb, _state, _running_apps, _current_app, pc, current_app,
                   throttle_by, cyc, gate, select_calls, Config>>

\* Another FireTVDevice of the process calls adb_command in its async_update:
\* the Throttle record of adb_command is the one it shares with this device.
PeerGate ==
    /\ ThrottleRuns(throttle_age)
    /\ throttle_age' = 0
    /\ throttle_by' = "peer"
    /\ UNCHANGED <<_adb, _state, _running_apps, _current_app, pc, timer,
                   current_app, cyc, gate, gate_age, select_calls, Config>>

Next ==
    \/ UpdateDisconnected
    \/ ReturnDisconnected
    \/ UpdateScreenOn
    \/ ReturnOff
    \/ CheckAwake
    \/ ReturnIdle
    \/ GetRunningApps
    \/ GetCurrentApp
    \/ DeriveWithApp
    \/ DeriveWithoutApp
    \/ ReturnDerived
    \/ Command
    \/ Tick
    \/ PeerGate

Spec == Init /\ [][Next]_vars

\* The runs in which every remote operation returns or raises one of
\* self._exceptions.
NextRecognized == Next /\ gate'.fault # "other"

SpecRecognized == Init /\ [][NextRecognized]_vars

\* The service calls on a device between polling cycles, with the sources of
\* select_source followed.
NextSelect ==
    \/ SelectSource
    \/ Command
    \/ Tick
    \/ PeerGate

SpecSelect == Init /\ [][NextSelect]_vars

(* ------------------------------------------------------------------ claims *)

\* A polling cycle is over: async_update returned or raised.
CycleEnded == pc = "idle" /\ cyc.outcome \in {"returned", "TypeError", "other"}

SourceInfoAbsent == _current_app = None /\ _running_apps = None

ReadTrue(v) == v = PyBool(TRUE)
ReadFalseOrNothing(v) == v \in {PyBool(FALSE), None}

\* The cycle read the current app and it is not the launcher or the settings.
ReadOtherApp ==
    /\ cyc.current_app # Unread
    /\ cyc.current_app \notin
          {PyStr(PACKAGE_LAUNCHER), PyStr(PACKAGE_SETTINGS),
           PyDictPackage(PyStr(PACKAGE_LAUNCHER)),
           PyDictPackage(PyStr(PACKAGE_SETTINGS))}

\* C1: a cycle that starts with the connection handle absent ends with state
\* Unknown and no source info, has called connect exactly once through the
\* gate and has issued no property probe.
C1_DisconnectedCycle ==
    (CycleEnded /\ ~cyc.hadHandle) =>
        /\ _state = STATE_UNKNOWN
        /\ SourceInfoAbsent
        /\ cyc.connects = 1
        /\ cyc.probes = <<>>

\* C2: a cycle that starts with the handle present and reads _screen_on as
\* false or without a result ends with state Off and no source info, whatever
\* the toggles and whatever the previous cycle left.
C2_ScreenOffCycle ==
    (CycleEnded /\ cyc.hadHandle /\ ReadFalseOrNothing(cyc.screen_on)) =>
        /\ _state = STATE_OFF
        /\ SourceInfoAbsent

\* A cycle that followed a Playing state read _screen_on without a result.
C2_Witness ==
    /\ CycleEnded /\ cyc.hadHandle
    /\ cyc.screen_on = None
    /\ cyc.before = STATE_PLAYING
    /\ _state = STATE_OFF

\* C3: a cycle that starts with the handle present, reads _screen_on as true
\* and _awake as false or without a result ends with state Idle and no source
\* info.
C3_ScreenSaverCycle ==
    (/\ CycleEnded /\ cyc.hadHandle
     /\ ReadTrue(cyc.screen_on)
     /\ ReadFalseOrNothing(cyc.awake)) =>
        /\ _state = STATE_IDLE
        /\ SourceInfoAbsent

\* A cycle that followed a Paused state read _awake without a result.
C3_Witness ==
    /\ CycleEnded /\ cyc.hadHandle
    /\ ReadTrue(cyc.screen_on)
    /\ cyc.awake = None
    /\ cyc.before = STATE_PAUSED
    /\ _state = STATE_IDLE

\* C4: a cycle with _screen_on and _awake read as true, the current app
\* fetched and equal to the launcher or the settings package ends with state
\* Standby; the wake lock is not consulted.
C4_LauncherIsStandby ==
    (/\ CycleEnded
     /\ ReadTrue(cyc.screen_on) /\ ReadTrue(cyc.awake)
     /\ _get_source
     /\ cyc.current_app \in
           {PyStr(PACKAGE_LAUNCHER), PyStr(PACKAGE_SETTINGS),
            PyDictPackage(PyStr(PACKAGE_LAUNCHER)),
            PyDictPackage(PyStr(PACKAGE_SETTINGS))}) =>
        /\ _state = STATE_STANDBY
        /\ cyc.wake_lock = Unread

\* The settings are in the foreground of a device that was Playing before.
C4_Witness ==
    /\ CycleEnded
    /\ cyc.current_app = PyStr(PACKAGE_SETTINGS)
    /\ cyc.before = STATE_PLAYING
    /\ _state = STATE_STANDBY

\* C5: a cycle with _screen_on and _awake read as true, the current app
\* fetched and neither the launcher nor the settings ends with state Playing
\* if the wake lock read true and Paused otherwise.  (Cycles ended by an
\* exception outside self._exceptions are left out.)
C5_AppPlayingOrPaused ==
    (/\ CycleEnded /\ cyc.outcome # "other"
     /\ ReadTrue(cyc.screen_on) /\ ReadTrue(cyc.awake)
     /\ _get_source
     /\ ReadOtherApp) =>
        _state = IF ReadTrue(cyc.wake_lock) THEN STATE_PLAYING
                 ELSE STATE_PAUSED

\* C6: a cycle with _screen_on and _awake read as true and the current app
\* not fetched ends with state Playing if the wake lock read true and Standby
\* otherwise; current_app is not read and the state is not Paused.  (Cycles
\* ended by an exception outside self._exceptions are left out.)
C6_NoAppPlayingOrStandby ==
    (/\ CycleEnded /\ cyc.outcome # "other"
     /\ ReadTrue(cyc.screen_on) /\ ReadTrue(cyc.awake)
     /\ ~_get_source) =>
        /\ _state = IF ReadTrue(cyc.wake_lock) THEN STATE_PLAYING
                    ELSE STATE_STANDBY
        /\ cyc.current_app = Unread
        /\ _state # STATE_PAUSED

\* C7: with _get_sources disabled and _get_source enabled, between cycles the
\* source list is absent or the one-element list of the source; after a cycle
\* that read the current app it is that app alone, or absent when the app is
\* absent.
C7_SingleElementList ==
    (pc = "idle" /\ _get_source /\ ~_get_sources) =>
        /\ _running_apps \in {None, PyList(<<_current_app>>)}
        /\ (CycleEnded /\ cyc.current_app # Unread) =>
              /\ _current_app = ExtractPackage(cyc.current_app)
              /\ _running_apps = IF _current_app \in {None, PyStr("")}
                                 THEN None
                                 ELSE PyList(<<_current_app>>)

\* A cycle read the app as a dict with a package, and a command followed.
C7_Witness ==
    /\ CycleEnded /\ _get_source /\ ~_get_sources
    /\ cyc.current_app = PyDictPackage(PyStr(PACKAGE_NETFLIX))
    /\ _running_apps = PyList(<<PyStr(PACKAGE_NETFLIX)>>)
    /\ gate.via = "command"

\* C8: when the operation called through the gate raises an exception of
\* self._exceptions, the gate drops the connection handle, returns None, logs
\* one error and raises nothing.
C8_FaultContract ==
    gate.fault = "recognized" =>
        /\ ~gate.adb
        /\ ~_adb
        /\ gate.neutral
        /\ gate.logs = 1
        /\ gate.raised = "none"

\* A probe of a cycle that started connected raised a recognized exception.
C8_Witness ==
    /\ gate.fault = "recognized"
    /\ gate.via = "update"
    /\ cyc.hadHandle
    /\ ~_adb

\* C9: when the gate is invoked twice for the same operation with less than
\* MIN_TIME between the invocations, the operation is executed once: the
\* first invocation executes it, the second is skipped and raises nothing.
C9_RepeatIsSkippedQuietly ==
    gate.repeat =>
        /\ gate.prevExecuted
        /\ ~gate.executed
        /\ gate.raised = "none"

\* C10: a guarded invocation of async_update is skipped only because of an
\* invocation of the same operation on the same device; an invocation of
\* another operation or by another device makes no call skip or fail.
C10_ThrottleIsPerOperation ==
    (gate.via = "update" /\ ~gate.executed) => gate.blocker = gate.op

\* C11: the first cycle to start after a recognized exception in a guarded
\* call starts with the handle absent, ends with state Unknown and no source
\* info and has called connect; the recognized exception was not raised.
C11_CycleAfterFaultReconnects ==
    /\ (CycleEnded /\ cyc.afterFault) =>
          /\ ~cyc.hadHandle
          /\ _state = STATE_UNKNOWN
          /\ SourceInfoAbsent
          /\ cyc.connects = 1
    /\ gate.fault = "recognized" => gate.raised = "none"

\* C12: whenever no cycle is in progress and the handle is absent, the state
\* is Unknown and there is no source info.
C12_AbsentHandleIsUnknown ==
    (pc = "idle" /\ ~_adb) => (_state = STATE_UNKNOWN /\ SourceInfoAbsent)

\* C12, amended: whenever no cycle is in progress, the handle is absent and
\* the last cycle started with the handle absent, the state is Unknown and
\* there is no source info.
C12_AbsentSinceCycleStart ==
    (pc = "idle" /\ ~_adb /\ cyc.outcome # "none" /\ ~cyc.hadHandle) =>
        (_state = STATE_UNKNOWN /\ SourceInfoAbsent)

\* A device that was Playing went through a cycle that started with the
\* handle absent.
C12_Witness ==
    /\ pc = "idle" /\ ~_adb
    /\ cyc.outcome = "returned" /\ ~cyc.hadHandle
    /\ cyc.before = STATE_PLAYING
    /\ _state = STATE_UNKNOWN

\* C13: a guarded connect call of line 183 during which the device accepted
\* the connection leaves the handle that line 177 tests present, so that the
\* next cycle goes on to probe _screen_on.
C13_ConnectRestoresHandle ==
    (gate.op = "connect" /\ gate.connected) => gate.adb

\* C14: when every remote operation returns or raises a recognized
\* exception, no cycle ends by raising an exception.
C14_NoExceptionEscapes == cyc.outcome \notin {"TypeError", "other"}

\* C15: a select_source call with a str source that starts with "!" invokes
\* stop_app once, with the source minus the sigil and minus the whitespace
\* that follows it, and does not invoke launch_app; with any other str source
\* it invokes launch_app once, with the source as it is, and not stop_app.
C15_SelectSourceDispatch ==
    (select_calls.called /\ select_calls.source.t = "str") =>
        LET chars == select_calls.source.chars IN
        IF startswith(chars, "!")
        THEN select_calls.invoked =
                <<[f |-> "stop_app", arg |-> lstrip(Tail(chars))]>>
        ELSE select_calls.invoked = <<[f |-> "launch_app", arg |-> chars]>>

\* C16: a command, whether it succeeds, raises a recognized exception or is
\* not callable, between cycles or while a cycle is suspended, leaves the
\* state, the source and the source list as they were.
C16_CommandsKeepState ==
    [][(gate'.via = "command" /\ pc' = pc) =>
          UNCHANGED <<_state, _current_app, _running_apps>>]_vars

\* A command raised a recognized exception while a cycle of a Playing device
\* was suspended.
C16_Witness ==
    /\ gate.via = "command" /\ gate.fault = "recognized"
    /\ pc # "idle"
    /\ _state = STATE_PLAYING
    /\ _current_app = PyStr(PACKAGE_NETFLIX)

\* C17: an exception outside self._exceptions is raised to the caller of the
\* gate; the gate leaves the handle as it was and logs nothing.
C17_OtherFaultPropagates ==
    gate.fault = "other" =>
        /\ gate.raised = "other"
        /\ gate.logs = 0
        /\ gate.adb = gate.adbBefore

\* The current_app probe of a connected device raised such an exception.
C17_Witness ==
    /\ gate.fault = "other"
    /\ gate.op = "current_app"
    /\ gate.adbBefore /\ _adb
    /\ cyc.outcome = "other"

ProbeOrder ==
    <<"_screen_on", "_awake", "running_apps", "current_app", "_wake_lock">>

Position(op) == CHOOSE i \in DOMAIN ProbeOrder : ProbeOrder[i] = op

\* The cycle has issued the probe op.
Issued(op) == \E i \in DOMAIN cyc.probes : cyc.probes[i] = op

\* C18: the probes of a cycle that started with the handle present are, in
\* order and each at most once, among _screen_on, _awake, running_apps,
\* current_app, _wake_lock; _awake follows a _screen_on read as true; the
\* other three follow an _awake read as true; running_apps needs
\* fetch_all_sources and current_app needs fetch_current_app; _wake_lock is
\* not probed when the current app is the launcher or the settings.
C18_ProbeOrder ==
    cyc.hadHandle =>
        /\ \A i, j \in DOMAIN cyc.probes :
              i < j => Position(cyc.probes[i]) < Position(cyc.probes[j])
        /\ Issued("_awake") => ReadTrue(cyc.screen_on)
        /\ \A op \in {"running_apps", "current_app", "_wake_lock"} :
              Issued(op) => ReadTrue(cyc.screen_on) /\ ReadTrue(cyc.awake)
        /\ Issued("running_apps") => _get_sources
        /\ Issued("current_app") => _get_source
        /\ (Issued("_wake_lock") /\ _get_source) => ReadOtherApp

\* A cycle issued all five probes.
C18_Witness ==
    /\ CycleEnded /\ cyc.outcome = "returned"
    /\ cyc.probes = ProbeOrder

\* C19: the handle changes only in a guarded call that raised a recognized
\* exception, which makes it absent, or in a connect call that established
\* it; no other guarded call and no other step of async_update changes it.
C19_HandleFrame ==
    [][/\ (_adb /\ ~_adb') =>
             /\ gate'.executed /\ gate'.fault = "recognized"
             /\ gate'.adbBefore /\ ~gate'.adb
       /\ (~_adb /\ _adb') => (gate'.op = "connect" /\ gate'.connected)
       /\ (gate' # gate /\ gate'.fault # "recognized"
              /\ gate'.op # "connect") => _adb' = _adb]_vars

\* A probe returned None without an exception and the handle stayed; later a
\* command dropped it.
C19_Witness ==
    /\ gate.via = "command" /\ gate.fault = "recognized"
    /\ gate.adbBefore /\ ~_adb
    /\ cyc.hadHandle /\ cyc.current_app = None
    /\ cyc.outcome = "returned"

\* What a probe of the cycle returned; a probe that was not issued has no
\* result.
Read(v) == IF v = Unread THEN None ELSE v

\* The state, the source and the source list that handle presence at the
\* start of the cycle c and the reads of c determine.
Fresh(c) ==
    LET app == ExtractPackage(Read(c.current_app))
        cleared(state) ==
            [state |-> state, source |-> None, source_list |-> None]
    IN
    IF ~c.hadHandle THEN cleared(STATE_UNKNOWN)
    ELSE IF ~Truthy(Read(c.screen_on)) THEN cleared(STATE_OFF)
    ELSE IF ~Truthy(Read(c.awake)) THEN cleared(STATE_IDLE)
    ELSE IF _get_source
    THEN [state |->
             IF app \in {PyStr(PACKAGE_LAUNCHER), PyStr(PACKAGE_SETTINGS)}
             THEN STATE_STANDBY
             ELSE IF Truthy(Read(c.wake_lock)) THEN STATE_PLAYING
             ELSE STATE_PAUSED,
          source |-> app,
          source_list |->
             IF _get_sources THEN Read(c.running_apps)
             ELSE IF Truthy(app) THEN PyList(<<app>>) ELSE None]
    ELSE [state |-> IF Truthy(Read(c.wake_lock)) THEN STATE_PLAYING
                    ELSE STATE_STANDBY,
          source |-> None,
          source_list |-> IF _get_sources THEN Read(c.running_apps) ELSE None]

\* C20: at the end of a cycle the state, the source and the source list are
\* what handle presence at its start and its reads determine, whatever the
\* cycle before left.
C20_DerivedFresh ==
    (CycleEnded /\ cyc.outcome # "other") =>
        [state |-> _state, source |-> _current_app,
         source_list |-> _running_apps] = Fresh(cyc)
====
